---- MODULE Spec2Model ----
(***************************************************************************)
(* The external-process execution engine of K1NGB0B recon:                 *)
(*   - AsyncRunner.run / run_tool  and run_sync  (k1ngb0b/utils/runner.py) *)
(*   - ProfessionalTimeoutManager               (k1ngb0b_recon_II.py)      *)
(* One behaviour follows one engine variant (variable engine); the tasks   *)
(* are the invocations submitted to it.                                    *)
(***************************************************************************)
EXTENDS Integers, Sequences, FiniteSets, TLC

\* ------------------------------------------------------------------ bounds
MaxTasks == 2          \* invocations submitted in one behaviour (M)
MaxConcurrent == 1     \* AsyncRunner(max_concurrent=N)
MaxCalls == 3          \* calls of run_with_timeout before the report is written
TimeoutTicks == 2      \* the timeout T of a submission, in ticks of the logical clock
GraceTicks == 1        \* a grace window (the sleep after a graceful signal), in ticks
MaxAge == TimeoutTicks + GraceTicks + 1   \* ages are counted up to here

Tasks == 1..MaxTasks
Engines == {"async", "sync", "manager"}
Runners == {"async", "shutdown"}          \* an AsyncRunner, without / with a cleanup() call
Commands == {"ok", "missing", "denied"}   \* what the OS answers to a spawn of argv[0]
Apis == {"run", "run_tool"}
Descriptions == {"scan", "probe"}

\* ------------------------------------------------------- program constants
RcTimeout == 124       \* run_sync: returncode on subprocess.TimeoutExpired
RcNotFound == 127      \* run, run_tool, run_sync: command not found
RcError == 1           \* run, run_sync: any other exception; run: returncode None
ExitOk == 0
ExitFail == 2          \* some non-zero exit status of a tool
StatusTerm == -15      \* child killed by SIGTERM
StatusKill == -9       \* child killed by SIGKILL

VARIABLES
    engine,        \* which engine variant this behaviour exercises
    pc,            \* pc[i]: where invocation i's coroutine / call stands
    req,           \* req[i]: the command of invocation i (what its spawn will meet)
    proc,          \* proc[i]: "none" | "running" | "zombie" (exited, unreaped) | "reaped"
    status,        \* status[i]: the child's wait status (meaningful once it exited)
    sent,          \* sent[i]: signals sent to invocation i's child, with their target
    refused,       \* refused[i]: the signal calls for invocation i's child that raised
    deadline,      \* deadline[i]: "no", or how the child stood when the timeout elapsed
    semaphore,     \* AsyncRunner._semaphore: [created, value]
    processes,     \* AsyncRunner._processes (a list; a process is named by its task)
    result,        \* result[i]: the RunResult returned by run / run_tool / run_sync
    description,   \* description[i]: run_with_timeout's description argument
    active_processes,  \* ProfessionalTimeoutManager.active_processes: description -> task (0: no key)
    timeout_count, \* ProfessionalTimeoutManager.timeout_count
    skip_count,    \* ProfessionalTimeoutManager.skip_count
    manual_commands,   \* ProfessionalTimeoutManager.manual_commands
    ret,           \* ret[i]: the tuple returned by run_with_timeout
    timed,         \* whether this behaviour keeps the logical clock
    age,           \* age[i]: ticks since invocation i was submitted (while in progress)
    left,          \* left[i]: ticks until invocation i's running timer is due
    batch,         \* what AsyncRunner.run_many returned for the batch of all invocations
    max_concurrent,    \* AsyncRunner.max_concurrent
    cleaner,       \* the coroutine of AsyncRunner.cleanup(): [pc, k, target, inflight]
    outcomes,      \* how the calls of run_with_timeout ended, one entry per whole call
    script,        \* the lines of manual_commands.sh as save_manual_commands wrote them
    summary,       \* what get_summary returned last
    loaded,        \* loaded[i]: the counter value thread i read for its "+= 1"
    default_runner,    \* runner.py's module global _default_runner
    handed,        \* what the calls of get_runner were given and what they returned
    search_path,   \* the tools shutil.which finds on the search path
    names,         \* the list of tool names handed to the functions of tools.py
    tools          \* what the functions of tools.py returned for names

vars == <<engine, pc, req, proc, status, sent, refused, deadline, semaphore, processes, result,
          description, active_processes, timeout_count, skip_count, manual_commands, ret,
          timed, age, left, batch, max_concurrent, cleaner, outcomes, script, summary,
          loaded, default_runner, handed, search_path, names, tools>>

config == <<engine, timed, max_concurrent>>
otherCalls == <<batch, cleaner, outcomes, script, summary>>          \* the state of the calls beside run / run_with_timeout
utilVars == <<default_runner, handed, search_path, names, tools>>   \* the state of get_runner and of tools.py
threadVars == <<loaded>>                  \* what the threads calling run_with_timeout keep
childVars == <<proc, status, sent, refused, deadline>>
runnerVars == <<semaphore, processes, result>>
managerVars == <<description, active_processes, timeout_count, skip_count,
                 manual_commands, ret>>

\* ---------------------------------------------------------------- RunResult
NoResult == [kind |-> "none", returncode |-> 0, timed_out |-> FALSE, stdout |-> "",
             stderr |-> ""]

\* The stdout that goes with a stderr. "child" stands for what the child wrote to
\* the pipe: communicate() hands back both streams together. Wherever the code
\* puts a text of its own into stderr (runner.py 104, 112, 121, 170, 224, 233,
\* 242; k1ngb0b_recon_II.py 144, 158) it sets stdout to the empty string.
Captured(stderr) == IF stderr = "child" THEN "child" ELSE ""

RunResult(returncode, stderr, timed_out) ==
    [kind |-> "value", returncode |-> returncode, timed_out |-> timed_out,
     stdout |-> Captured(stderr), stderr |-> stderr]

Raised(exc) == [kind |-> "raised", returncode |-> 0, timed_out |-> FALSE, stdout |-> "",
                stderr |-> exc]

\* success without its test of timed_out.
successIgnoresTimeout(r) == r.returncode = 0

\* RunResult.success
success(r) == r.returncode = 0 /\ ~r.timed_out

\* ------------------------------------------------------------------ children
\* The wait statuses a running child can end with: its own exit status, or the
\* status of the strongest signal it was sent (a tool may also catch SIGTERM and
\* exit cleanly).
ExitStatuses(i) ==
    IF sent[i] \cap {"SIGKILL-group", "SIGKILL-pid"} # {} THEN {ExitOk, StatusKill}
    ELSE IF sent[i] \cap {"SIGTERM-group", "SIGTERM-pid"} # {} THEN {ExitOk, StatusTerm}
    ELSE {ExitOk, ExitFail}

\* A child ends: by itself, or because of a signal it was sent. Under asyncio the
\* loop's child watcher collects the status at once and sets process.returncode;
\* a child of subprocess.Popen stays a zombie until its parent waits for it.
ChildExit(i) ==
    /\ proc[i] = "running"
    /\ \E c \in ExitStatuses(i) :
          /\ proc' = [proc EXCEPT ![i] = IF engine \in Runners THEN "reaped" ELSE "zombie"]
          /\ status' = [status EXCEPT ![i] = c]
    /\ UNCHANGED <<config, utilVars, threadVars, otherCalls, age, left, pc, req, sent, refused, deadline, runnerVars, managerVars>>

\* A timer of n ticks is started (behaviours without the clock keep no timers).
Arm(i, n) == [left EXCEPT ![i] = IF timed THEN n ELSE 0]

\* A pending timer is dropped.
Disarm(i) == [left EXCEPT ![i] = 0]

\* Invocation i's timer (wait_for, sleep, communicate(timeout), wait(timeout)) is due.
Due(i) == left[i] = 0

\* process.returncode: None until the status has been collected.
ReturncodeIsNone(i) == proc[i] # "reaped"

\* ---------------------------------------------------------------- AsyncRunner
\* AsyncRunner._get_semaphore: created on first use with max_concurrent slots.
GetSemaphore ==
    IF semaphore.created THEN semaphore
    ELSE [created |-> TRUE, value |-> max_concurrent]

\* list.remove(x): the first occurrence goes.
ListRemove(s, x) ==
    LET idx == CHOOSE k \in 1..Len(s) : s[k] = x /\ \A j \in 1..(k - 1) : s[j] # x
    IN  [k \in 1..(Len(s) - 1) |-> IF k < idx THEN s[k] ELSE s[k + 1]]

InList(s, x) == \E k \in 1..Len(s) : s[k] = x

\* Leaving "async with semaphore" without giving the slot back.
ReleaseLost(sem) == sem

\* Leaving "async with semaphore": the slot goes back.
Release(sem) == [sem EXCEPT !.value = @ + 1]

\* RunHandler without the clause for FileNotFoundError.
RunHandlerNoNotFound(exc) == RunResult(RcError, exc, FALSE)

\* RunHandler without the clause for Exception: anything else leaves run.
RunHandlerNarrow(exc) ==
    IF exc = "FileNotFoundError"
    THEN RunResult(RcNotFound, "Command not found", FALSE)
    ELSE Raised(exc)

\* The except clauses of run (lines 108-125): what an exception raised inside the
\* try block becomes.
RunHandler(exc) ==
    IF exc = "FileNotFoundError"
    THEN RunResult(RcNotFound, "Command not found", FALSE)
    ELSE RunResult(RcError, exc, FALSE)

\* RunReturn with the timed_out argument of the result left at its default.
RunReturnFlagLost(i, timed_out, stderr) ==
    /\ processes' = ListRemove(processes, i)
    /\ semaphore' = Release(semaphore)
    /\ result' = [result EXCEPT ![i] =
                    RunResult(IF ReturncodeIsNone(i) THEN RcError ELSE status[i],
                              stderr, FALSE)]
    /\ pc' = [pc EXCEPT ![i] = "done"]

\* RunReturn with the slot kept when remove raises.
RunReturnLeak(i, timed_out, stderr) ==
    /\ pc' = [pc EXCEPT ![i] = "done"]
    /\ IF InList(processes, i)
       THEN /\ semaphore' = Release(semaphore)
            /\ processes' = ListRemove(processes, i)
            /\ result' = [result EXCEPT ![i] =
                            RunResult(IF ReturncodeIsNone(i) THEN RcError ELSE status[i],
                                      stderr, timed_out)]
       ELSE /\ semaphore' = semaphore
            /\ processes' = processes
            /\ result' = [result EXCEPT ![i] = RunHandler("ValueError")]

\* run, lines 106 and 127-134: the process leaves the list, the slot is released and
\* the result is built from process.returncode. If cleanup() has cleared the list,
\* remove raises ValueError, which the clause for Exception (lines 117-125) handles.
RunReturn(i, timed_out, stderr) ==
    /\ semaphore' = Release(semaphore)
    /\ pc' = [pc EXCEPT ![i] = "done"]
    /\ IF InList(processes, i)
       THEN /\ processes' = ListRemove(processes, i)
            /\ result' = [result EXCEPT ![i] =
                            RunResult(IF ReturncodeIsNone(i) THEN RcError ELSE status[i],
                                      stderr, timed_out)]
       ELSE /\ processes' = processes            \* remove raises ValueError
            /\ result' = [result EXCEPT ![i] = RunHandler("ValueError")]

\* run_tool (lines 165-176) and the start of run (lines 78-83): the binary is looked
\* up, then the coroutine takes a slot or waits for one.
Submit(i) ==
    /\ engine \in Runners
    /\ pc[i] = "idle"
    /\ \A j \in 1..(i - 1) : pc[j] # "idle"
    /\ \E api \in Apis, cmd \in Commands :
          /\ req' = [req EXCEPT ![i] = cmd]
          /\ IF api = "run_tool" /\ cmd = "missing"
             THEN /\ result' = [result EXCEPT ![i] =
                                  RunResult(RcNotFound, "Tool not found in PATH", FALSE)]
                  /\ pc' = [pc EXCEPT ![i] = "done"]
                  /\ UNCHANGED semaphore
             ELSE /\ IF GetSemaphore.value > 0
                     THEN /\ semaphore' = [GetSemaphore EXCEPT !.value = @ - 1]
                          /\ pc' = [pc EXCEPT ![i] = "launch"]
                     ELSE /\ semaphore' = GetSemaphore
                          /\ pc' = [pc EXCEPT ![i] = "acquire"]
                  /\ UNCHANGED result
    /\ UNCHANGED <<config, utilVars, threadVars, otherCalls, age, left, childVars, processes, managerVars>>

\* A waiter of the semaphore is woken once a slot is free (the order in which
\* asyncio wakes its waiters is left open).
Acquire(i) ==
    /\ engine \in Runners
    /\ pc[i] = "acquire"
    /\ semaphore.value > 0
    /\ semaphore' = [semaphore EXCEPT !.value = @ - 1]
    /\ pc' = [pc EXCEPT ![i] = "launch"]
    /\ UNCHANGED <<config, utilVars, threadVars, otherCalls, age, left, req, childVars, processes, result, managerVars>>

\* run, lines 84-94: create_subprocess_exec, then the process is appended.
Launch(i) ==
    /\ engine \in Runners
    /\ pc[i] = "launch"
    /\ IF req[i] = "ok"
       THEN /\ proc' = [proc EXCEPT ![i] = "running"]
            /\ processes' = Append(processes, i)
            /\ pc' = [pc EXCEPT ![i] = "wait"]
            /\ left' = Arm(i, TimeoutTicks)
            /\ UNCHANGED <<semaphore, result>>
       ELSE /\ semaphore' = Release(semaphore)
            /\ result' = [result EXCEPT ![i] =
                            RunHandler(IF req[i] = "missing" THEN "FileNotFoundError"
                                       ELSE "PermissionError")]
            /\ pc' = [pc EXCEPT ![i] = "done"]
            /\ UNCHANGED <<proc, processes, left>>
    /\ UNCHANGED <<config, utilVars, threadVars, otherCalls, age, req, status, sent, refused, deadline, managerVars>>

\* run, lines 97-100 and 106: communicate() returns once the child's status is in.
CommunicateReturns(i) ==
    /\ engine \in Runners
    /\ pc[i] = "wait"
    /\ proc[i] = "reaped"
    /\ RunReturn(i, FALSE, "child")
    /\ left' = Disarm(i)
    /\ UNCHANGED <<config, utilVars, threadVars, otherCalls, age, req, childVars, managerVars>>

\* run, lines 97-100 and 117-125: communicate() (or the encoding of input_data)
\* raises something other than TimeoutError; line 106 is skipped.
CommunicateRaises(i) ==
    /\ engine \in Runners
    /\ pc[i] = "wait"
    /\ semaphore' = Release(semaphore)
    /\ result' = [result EXCEPT ![i] = RunHandler("Exception")]
    /\ pc' = [pc EXCEPT ![i] = "done"]
    /\ left' = Disarm(i)
    /\ UNCHANGED <<config, utilVars, threadVars, otherCalls, age, req, childVars, processes, managerVars>>

\* Whether os.killpg / os.getpgid can raise in this behaviour. The scenario with
\* cleanup() is followed with process-group signals that go through; the except
\* branch of _kill_process is followed in the scenario without cleanup().
KillpgMayRaise == engine # "shutdown"

\* _kill_process, lines 148-155, first half: os.killpg / os.getpgid raised;
\* process.terminate() is tried next.
Fallback(i) ==
    /\ KillpgMayRaise
    /\ \/ /\ sent' = [sent EXCEPT ![i] = @ \cup {"SIGTERM-pid"}]
          /\ refused' = [refused EXCEPT ![i] = @ \cup {"killpg"}]
          /\ pc' = [pc EXCEPT ![i] = "grace_pid"]
          /\ left' = Arm(i, GraceTicks)
          /\ UNCHANGED runnerVars
       \/ /\ RunReturn(i, TRUE, "Timeout exceeded")      \* terminate() raised: pass
          /\ refused' = [refused EXCEPT ![i] = @ \cup {"killpg", "terminate"}]
          /\ UNCHANGED <<sent, left>>

\* Timeout for children started without start_new_session: the group of the child
\* is the group of every child, and SIGTERM reaches all that run.
TimeoutSharedGroup(i) ==
    /\ engine \in Runners
    /\ pc[i] = "wait"
    /\ Due(i)
    /\ deadline' = [deadline EXCEPT ![i] = proc[i]]
    /\ IF ~ReturncodeIsNone(i)
       THEN /\ RunReturn(i, TRUE, "Timeout exceeded")
            /\ UNCHANGED <<sent, refused, left>>
       ELSE /\ sent' = [j \in Tasks |-> IF proc[j] = "running"
                                         THEN sent[j] \cup {"SIGTERM-group"}
                                         ELSE sent[j]]
            /\ pc' = [pc EXCEPT ![i] = "grace"]
            /\ left' = Arm(i, GraceTicks)
            /\ UNCHANGED <<runnerVars, refused>>
    /\ UNCHANGED <<config, utilVars, threadVars, otherCalls, age, req, proc, status, managerVars>>

\* Timeout without the call of _kill_process: the result is built at once.
TimeoutNoKill(i) ==
    /\ engine \in Runners
    /\ pc[i] = "wait"
    /\ Due(i)
    /\ deadline' = [deadline EXCEPT ![i] = proc[i]]
    /\ RunReturn(i, TRUE, "Timeout exceeded")
    /\ UNCHANGED <<config, utilVars, threadVars, otherCalls, age, left, req, proc, status, sent, refused, managerVars>>

\* run, lines 101-104 with _kill_process, lines 138-144: the deadline of wait_for
\* elapses; SIGTERM goes to the process group and the coroutine sleeps 0.5 s.
Timeout(i) ==
    /\ engine \in Runners
    /\ pc[i] = "wait"
    /\ Due(i)
    /\ deadline' = [deadline EXCEPT ![i] = proc[i]]
    /\ IF ~ReturncodeIsNone(i)
       THEN /\ RunReturn(i, TRUE, "Timeout exceeded")
            /\ UNCHANGED <<sent, refused, left>>
       ELSE \/ /\ sent' = [sent EXCEPT ![i] = @ \cup {"SIGTERM-group"}]
               /\ pc' = [pc EXCEPT ![i] = "grace"]
               /\ left' = Arm(i, GraceTicks)
               /\ UNCHANGED <<runnerVars, refused>>
            \/ Fallback(i)                           \* killpg / getpgid raised
    /\ UNCHANGED <<config, utilVars, threadVars, otherCalls, age, req, proc, status, managerVars>>

\* GraceElapsed without the test of process.returncode: SIGKILL whatever happened.
GraceElapsedBlind(i) ==
    /\ engine \in Runners
    /\ pc[i] = "grace"
    /\ Due(i)
    /\ sent' = [sent EXCEPT ![i] = @ \cup {"SIGKILL-group"}]
    /\ RunReturn(i, TRUE, "Timeout exceeded")
    /\ UNCHANGED <<config, utilVars, threadVars, otherCalls, age, left, req, proc, status, refused, deadline, managerVars>>

\* _kill_process, lines 146-147: after the sleep, SIGKILL to the group if the status
\* has not come in; then run goes on at line 104.
GraceElapsed(i) ==
    /\ engine \in Runners
    /\ pc[i] = "grace"
    /\ Due(i)
    /\ IF ReturncodeIsNone(i)
       THEN \/ /\ sent' = [sent EXCEPT ![i] = @ \cup {"SIGKILL-group"}]
               /\ RunReturn(i, TRUE, "Timeout exceeded")
               /\ UNCHANGED <<refused, left>>
            \/ Fallback(i)                           \* killpg / getpgid raised
       ELSE /\ RunReturn(i, TRUE, "Timeout exceeded")
            /\ UNCHANGED <<sent, refused, left>>
    /\ UNCHANGED <<config, utilVars, threadVars, otherCalls, age, req, proc, status, deadline, managerVars>>

\* _kill_process, lines 151-155: after the 0.2 s sleep, process.kill() if needed.
GracePidElapsed(i) ==
    /\ engine \in Runners
    /\ pc[i] = "grace_pid"
    /\ Due(i)
    /\ \/ /\ ReturncodeIsNone(i)
          /\ sent' = [sent EXCEPT ![i] = @ \cup {"SIGKILL-pid"}]
          /\ UNCHANGED refused
       \/ /\ ReturncodeIsNone(i)                     \* kill() raised: pass
          /\ refused' = [refused EXCEPT ![i] = @ \cup {"kill"}]
          /\ UNCHANGED sent
       \/ /\ ~ReturncodeIsNone(i)
          /\ UNCHANGED <<sent, refused>>
    /\ RunReturn(i, TRUE, "Timeout exceeded")
    /\ UNCHANGED <<config, utilVars, threadVars, otherCalls, age, left, req, proc, status, deadline, managerVars>>

\* ------------------------------------------------------------------- run_many
NoBatch == [kind |-> "none", list |-> <<>>]

\* gather handing back the successful results only.
GatherSuccessful(rs) == [kind |-> "value", list |-> SelectSeq(rs, success)]

\* asyncio.gather(*tasks) without return_exceptions: the results in the order of
\* the awaitables, or the first exception one of them raised.
Gather(rs) ==
    IF \E k \in 1..Len(rs) : rs[k].kind = "raised"
    THEN [kind |-> "raised", list |-> <<>>]
    ELSE [kind |-> "value", list |-> rs]

\* run_many (lines 184-185) over the batch of all invocations: its coroutines are
\* the invocations (Submit(i) and what follows); gather returns once all are done.
RunMany ==
    /\ engine = "async"
    /\ batch = NoBatch
    /\ \A i \in Tasks : pc[i] = "done"
    /\ batch' = Gather([i \in Tasks |-> result[i]])
    /\ UNCHANGED <<config, utilVars, threadVars, cleaner, outcomes, script, summary, pc, req, childVars, runnerVars, managerVars, age, left>>

\* -------------------------------------------------------------------- cleanup
NoCleanup == [pc |-> "idle", k |-> 0, target |-> 0, inflight |-> {}]

\* NextTarget without the test of returncode in _kill_process: every process of
\* the list is signalled.
NextTargetAny(k) == IF k < Len(processes) THEN k + 1 ELSE 0

\* "for process in self._processes" (line 189) after k elements were taken: the
\* position of the next element _kill_process has to wait for, 0 if there is none.
\* _kill_process returns at once, without giving up control, for a process whose
\* returncode is set (lines 138-139).
NextTarget(k) ==
    LET cand == {j \in (k + 1)..Len(processes) : ReturncodeIsNone(processes[j])}
    IN  IF cand = {} THEN 0 ELSE CHOOSE j \in cand : \A m \in cand : j <= m

\* cleanup, from the state c of its coroutine with k elements taken and with s the
\* signals sent so far, up to its next await or its end: the next process that
\* is not collected gets SIGTERM (lines 141-144) and _kill_process sleeps; when the
\* list is exhausted it is cleared (line 191) and cleanup returns.
Continue(c, s) ==
    LET j == NextTarget(c.k) IN
    IF j = 0
    THEN /\ cleaner' = [c EXCEPT !.pc = "done", !.k = 0, !.target = 0]
         /\ processes' = <<>>
         /\ sent' = s
    ELSE /\ cleaner' = [c EXCEPT !.pc = "sleep", !.k = j, !.target = processes[j]]
         /\ processes' = processes
         /\ sent' = [s EXCEPT ![processes[j]] = @ \cup {"SIGTERM-group"}]

\* cleanup() is called (lines 187-189), at any moment, once. inflight keeps the
\* invocations whose child is registered and running at the call.
Cleanup ==
    /\ engine = "shutdown"
    /\ cleaner.pc = "idle"
    /\ Continue([cleaner EXCEPT !.inflight =
                    {i \in Tasks : InList(processes, i) /\ proc[i] = "running"}],
                sent)
    /\ UNCHANGED <<config, utilVars, threadVars, batch, outcomes, script, summary, pc, req, proc, status, refused, deadline,
                   semaphore, result, managerVars, age, left>>

\* _kill_process called by cleanup, lines 144-147: the 0.5 s are over; SIGKILL to the
\* group if the status has not come in; then the loop of cleanup goes on.
CleanupGraceElapsed ==
    /\ engine = "shutdown"
    /\ cleaner.pc = "sleep"
    /\ Continue(cleaner,
                IF ReturncodeIsNone(cleaner.target)
                THEN [sent EXCEPT ![cleaner.target] = @ \cup {"SIGKILL-group"}]
                ELSE sent)
    /\ UNCHANGED <<config, utilVars, threadVars, batch, outcomes, script, summary, pc, req, proc, status, refused, deadline,
                   semaphore, result, managerVars, age, left>>

\* ------------------------------------------------------------------- run_sync
\* The except clauses of run_sync (lines 220-246).
SyncHandler(exc) ==
    IF exc = "TimeoutExpired" THEN RunResult(RcTimeout, "Timeout exceeded", TRUE)
    ELSE IF exc = "FileNotFoundError" THEN RunResult(RcNotFound, "Command not found", FALSE)
    ELSE RunResult(RcError, exc, FALSE)

\* run_sync, lines 204-211: subprocess.run spawns the child (the call blocks its
\* caller, so a call starts once the one before it has returned).
SyncStart(i) ==
    /\ engine = "sync"
    /\ pc[i] = "idle"
    /\ \A j \in 1..(i - 1) : pc[j] = "done"
    /\ \E cmd \in Commands :
          /\ req' = [req EXCEPT ![i] = cmd]
          /\ IF cmd = "ok"
             THEN /\ proc' = [proc EXCEPT ![i] = "running"]
                  /\ pc' = [pc EXCEPT ![i] = "sync_wait"]
                  /\ UNCHANGED result
             ELSE /\ result' = [result EXCEPT ![i] =
                                  SyncHandler(IF cmd = "missing" THEN "FileNotFoundError"
                                              ELSE "PermissionError")]
                  /\ pc' = [pc EXCEPT ![i] = "done"]
                  /\ UNCHANGED proc
    /\ UNCHANGED <<config, utilVars, threadVars, otherCalls, age, left, status, sent, refused, deadline, semaphore, processes, managerVars>>

\* run_sync, lines 212-219: the child has exited; subprocess.run waits for it.
SyncReturns(i) ==
    /\ engine = "sync"
    /\ pc[i] = "sync_wait"
    /\ proc[i] = "zombie"
    /\ proc' = [proc EXCEPT ![i] = "reaped"]
    /\ \/ result' = [result EXCEPT ![i] = RunResult(status[i], "child", FALSE)]
       \/ result' = [result EXCEPT ![i] = SyncHandler("UnicodeDecodeError")]
    /\ pc' = [pc EXCEPT ![i] = "done"]
    /\ UNCHANGED <<config, utilVars, threadVars, otherCalls, age, left, req, status, sent, refused, deadline, semaphore, processes, managerVars>>

\* run_sync, lines 220-228: the timeout of subprocess.run expires; subprocess.run
\* kills the child and waits for it before it raises TimeoutExpired.
SyncTimeout(i) ==
    /\ engine = "sync"
    /\ pc[i] = "sync_wait"
    /\ proc[i] \in {"running", "zombie"}
    /\ deadline' = [deadline EXCEPT ![i] = proc[i]]
    /\ sent' = [sent EXCEPT ![i] = @ \cup {"SIGKILL-pid"}]
    /\ status' = [status EXCEPT ![i] = IF proc[i] = "running" THEN StatusKill ELSE @]
    /\ proc' = [proc EXCEPT ![i] = "reaped"]
    /\ result' = [result EXCEPT ![i] = SyncHandler("TimeoutExpired")]
    /\ pc' = [pc EXCEPT ![i] = "done"]
    /\ UNCHANGED <<config, utilVars, threadVars, otherCalls, age, left, req, refused, semaphore, processes, managerVars>>

\* ------------------------------------------------ ProfessionalTimeoutManager
NoReturn == [kind |-> "none", success |-> FALSE, stdout |-> "", stderr |-> ""]

\* Returned with the flag set whenever the output of the child was captured.
ReturnedIfCaptured(ok, stderr) ==
    [kind |-> "value", success |-> (stderr = "child"), stdout |-> Captured(stderr),
     stderr |-> stderr]

\* The tuple (success, stdout, stderr) run_with_timeout returns.
Returned(ok, stderr) ==
    [kind |-> "value", success |-> ok, stdout |-> Captured(stderr), stderr |-> stderr]

\* One entry of manual_commands (lines 135-139, 151-155); the command line is
\* named by its invocation.
ManualRecord(i, d, reason) == [description |-> d, command |-> i, reason |-> reason]

\* run_with_timeout, lines 160-162: the finally clause.
Finally(d) == [active_processes EXCEPT ![d] = 0]

\* ManagerExcept without the entry in manual_commands.
ManagerExceptSilent(i, d, exc) ==
    /\ skip_count' = skip_count + 1
    /\ manual_commands' = manual_commands
    /\ ret' = [ret EXCEPT ![i] = Returned(FALSE, exc)]
    /\ active_processes' = Finally(d)
    /\ pc' = [pc EXCEPT ![i] = "done"]

\* run_with_timeout, lines 146-162: the handler of any exception but
\* TimeoutExpired, then the finally clause.
ManagerExcept(i, d, exc) ==
    /\ skip_count' = skip_count + 1
    /\ manual_commands' = Append(manual_commands, ManualRecord(i, d, exc))
    /\ ret' = [ret EXCEPT ![i] = Returned(FALSE, exc)]
    /\ active_processes' = Finally(d)
    /\ pc' = [pc EXCEPT ![i] = "done"]

\* ManagerTimedOut without the entry in manual_commands.
ManagerTimedOutUnlogged(i) ==
    /\ manual_commands' = manual_commands
    /\ ret' = [ret EXCEPT ![i] = Returned(FALSE, "Timeout")]
    /\ active_processes' = Finally(description[i])
    /\ pc' = [pc EXCEPT ![i] = "done"]

\* run_with_timeout, lines 133-144 and 160-162: after _terminate_process_group
\* the command is logged and the call returns.
ManagerTimedOut(i) ==
    /\ manual_commands' =
          Append(manual_commands, ManualRecord(i, description[i], "Timeout"))
    /\ ret' = [ret EXCEPT ![i] = Returned(FALSE, "Timeout")]
    /\ active_processes' = Finally(description[i])
    /\ pc' = [pc EXCEPT ![i] = "done"]

\* run_with_timeout, lines 96-112: Popen, then the entry under the description.
\* The call blocks its caller: it starts once no other call is in progress.
ManagerCall(i) ==
    /\ engine = "manager"
    /\ pc[i] = "idle"
    /\ \A j \in 1..(i - 1) : pc[j] = "done"
    /\ \E cmd \in Commands, d \in Descriptions :
          /\ req' = [req EXCEPT ![i] = cmd]
          /\ description' = [description EXCEPT ![i] = d]
          /\ IF cmd = "ok"
             THEN /\ proc' = [proc EXCEPT ![i] = "running"]
                  /\ active_processes' = [active_processes EXCEPT ![d] = i]
                  /\ pc' = [pc EXCEPT ![i] = "tm_wait"]
                  /\ left' = Arm(i, TimeoutTicks)
                  /\ UNCHANGED <<skip_count, manual_commands, ret>>
             ELSE /\ ManagerExcept(i, d, IF cmd = "missing" THEN "FileNotFoundError"
                                         ELSE "PermissionError")
                  /\ UNCHANGED <<proc, left>>
    /\ UNCHANGED <<config, utilVars, threadVars, otherCalls, age, status, sent, refused, deadline, runnerVars, timeout_count>>

\* run_with_timeout, lines 115-123 and 160-162: communicate() waits for the exited
\* child and returns; or decoding its output (text=True) raises.
ManagerReturns(i) ==
    /\ engine = "manager"
    /\ pc[i] = "tm_wait"
    /\ proc[i] = "zombie"
    /\ proc' = [proc EXCEPT ![i] = "reaped"]
    /\ left' = Disarm(i)
    /\ \/ /\ ret' = [ret EXCEPT ![i] = Returned(status[i] = 0, "child")]
          /\ active_processes' = Finally(description[i])
          /\ pc' = [pc EXCEPT ![i] = "done"]
          /\ UNCHANGED <<skip_count, manual_commands>>
       \/ ManagerExcept(i, description[i], "UnicodeDecodeError")
    /\ UNCHANGED <<config, utilVars, threadVars, otherCalls, age, req, status, sent, refused, deadline, runnerVars, description, timeout_count>>

\* run_with_timeout, lines 125-131 with _terminate_process_group, lines 166-176:
\* communicate() times out; SIGTERM goes to the group and the call waits up to 10 s.
\* If killpg raises, _terminate_process_group prints and returns.
ManagerTimeout(i) ==
    /\ engine = "manager"
    /\ pc[i] = "tm_wait"
    /\ Due(i)
    /\ proc[i] \in {"running", "zombie"}
    /\ deadline' = [deadline EXCEPT ![i] = proc[i]]
    /\ timeout_count' = timeout_count + 1
    /\ \/ /\ sent' = [sent EXCEPT ![i] = @ \cup {"SIGTERM-group"}]
          /\ pc' = [pc EXCEPT ![i] = "tm_grace"]
          /\ left' = Arm(i, GraceTicks)
          /\ UNCHANGED <<refused, active_processes, manual_commands, ret>>
       \/ /\ ManagerTimedOut(i)                       \* killpg / getpgid raised
          /\ refused' = [refused EXCEPT ![i] = @ \cup {"killpg"}]
          /\ UNCHANGED <<sent, left>>
    /\ UNCHANGED <<config, utilVars, threadVars, otherCalls, age, req, proc, status, runnerVars, description, skip_count>>

\* _terminate_process_group, lines 175-177: the child ended within the 10 s.
ManagerGraceExit(i) ==
    /\ engine = "manager"
    /\ pc[i] = "tm_grace"
    /\ proc[i] = "zombie"
    /\ proc' = [proc EXCEPT ![i] = "reaped"]
    /\ left' = Disarm(i)
    /\ ManagerTimedOut(i)
    /\ UNCHANGED <<config, utilVars, threadVars, otherCalls, age, req, status, sent, refused, deadline, runnerVars, description,
                   timeout_count, skip_count>>

\* _terminate_process_group, lines 178-183: the 10 s are over; SIGKILL goes to the
\* group (it was signalled a moment ago and nobody else reaps it, so killpg finds
\* it) and the call waits for the child without a timeout.
ManagerGraceElapsed(i) ==
    /\ engine = "manager"
    /\ pc[i] = "tm_grace"
    /\ proc[i] = "running"
    /\ Due(i)
    /\ sent' = [sent EXCEPT ![i] = @ \cup {"SIGKILL-group"}]
    /\ pc' = [pc EXCEPT ![i] = "tm_kill"]
    /\ UNCHANGED <<config, utilVars, threadVars, otherCalls, age, left, req, proc, status, refused, deadline, runnerVars, managerVars>>

\* _terminate_process_group, line 184: process.wait() returns.
ManagerKillWait(i) ==
    /\ engine = "manager"
    /\ pc[i] = "tm_kill"
    /\ proc[i] = "zombie"
    /\ proc' = [proc EXCEPT ![i] = "reaped"]
    /\ ManagerTimedOut(i)
    /\ UNCHANGED <<config, utilVars, threadVars, otherCalls, age, left, req, status, sent, refused, deadline, runnerVars, description,
                   timeout_count, skip_count>>

\* -------------------------------------------------------------------- threads
\* run_with_timeout called by one thread per invocation. The statements of a call
\* that read or write the manager's attributes are steps of their own here: the
\* assignment to active_processes (line 108), the read and the write of
\* "timeout_count += 1" (126) and "skip_count += 1" (147), the appends (135, 151),
\* the test (161) and the del (162) of the finally clause.
threadFrame == <<config, utilVars, otherCalls, age, left, runnerVars>>

\* The return statement was executed with r; the finally clause tests the key
\* (line 161) and, if it is there, goes on to delete it.
ThreadLeave(i, r) ==
    /\ ret' = [ret EXCEPT ![i] = r]
    /\ pc' = [pc EXCEPT ![i] = IF active_processes[description[i]] # 0 THEN "th_del"
                               ELSE "done"]

\* Lines 96-112 in a thread: Popen, then the entry under the description (whatever
\* is under that key is overwritten). If Popen raises, the handler of Exception
\* starts with the read of skip_count.
ThreadCall(i) ==
    /\ engine = "threads"
    /\ pc[i] = "idle"
    /\ \A j \in 1..(i - 1) : pc[j] # "idle"
    /\ \E cmd \in Commands, d \in Descriptions :
          /\ req' = [req EXCEPT ![i] = cmd]
          /\ description' = [description EXCEPT ![i] = d]
          /\ IF cmd = "ok"
             THEN /\ proc' = [proc EXCEPT ![i] = "running"]
                  /\ active_processes' = [active_processes EXCEPT ![d] = i]
                  /\ pc' = [pc EXCEPT ![i] = "th_wait"]
                  /\ UNCHANGED loaded
             ELSE /\ loaded' = [loaded EXCEPT ![i] = skip_count]
                  /\ pc' = [pc EXCEPT ![i] = "th_skip"]
                  /\ UNCHANGED <<proc, active_processes>>
    /\ UNCHANGED <<threadFrame, status, sent, refused, deadline, timeout_count, skip_count,
                   manual_commands, ret>>

\* Lines 115-123 in a thread: communicate() returns for the exited child; or
\* decoding its output raises and the handler of Exception starts.
ThreadReturns(i) ==
    /\ engine = "threads"
    /\ pc[i] = "th_wait"
    /\ proc[i] = "zombie"
    /\ proc' = [proc EXCEPT ![i] = "reaped"]
    /\ \/ /\ ThreadLeave(i, Returned(status[i] = 0, "child"))
          /\ UNCHANGED loaded
       \/ /\ loaded' = [loaded EXCEPT ![i] = skip_count]
          /\ pc' = [pc EXCEPT ![i] = "th_skip"]
          /\ UNCHANGED ret
    /\ UNCHANGED <<threadFrame, req, status, sent, refused, deadline, description,
                   active_processes, timeout_count, skip_count, manual_commands>>

\* Line 147 (the write) and lines 150-158 in a thread: skip_count gets the value
\* read plus one, the record is appended, the tuple is returned.
ThreadSkip(i) ==
    /\ engine = "threads"
    /\ pc[i] = "th_skip"
    /\ skip_count' = loaded[i] + 1
    /\ LET exc == IF req[i] = "ok" THEN "UnicodeDecodeError"
                  ELSE IF req[i] = "missing" THEN "FileNotFoundError"
                  ELSE "PermissionError"
       IN  /\ manual_commands' = Append(manual_commands, ManualRecord(i, description[i], exc))
           /\ ThreadLeave(i, Returned(FALSE, exc))
    /\ UNCHANGED <<threadFrame, req, childVars, description, active_processes, timeout_count,
                   loaded>>

\* Lines 125-126 in a thread: communicate() times out; timeout_count is read.
ThreadTimeout(i) ==
    /\ engine = "threads"
    /\ pc[i] = "th_wait"
    /\ Due(i)
    /\ proc[i] \in {"running", "zombie"}
    /\ deadline' = [deadline EXCEPT ![i] = proc[i]]
    /\ loaded' = [loaded EXCEPT ![i] = timeout_count]
    /\ pc' = [pc EXCEPT ![i] = "th_count"]
    /\ UNCHANGED <<threadFrame, req, proc, status, sent, refused, managerVars>>

\* The record and the return of the clause for TimeoutExpired (lines 134-144).
ThreadTimedOut(i) ==
    /\ manual_commands' =
          Append(manual_commands, ManualRecord(i, description[i], "Timeout"))
    /\ ThreadLeave(i, Returned(FALSE, "Timeout"))

\* Line 126 (the write) and _terminate_process_group, lines 166-176, in a thread:
\* timeout_count gets the value read plus one; SIGTERM goes to the group, or killpg
\* raises and the call goes on to its record and its return.
ThreadTerminate(i) ==
    /\ engine = "threads"
    /\ pc[i] = "th_count"
    /\ timeout_count' = loaded[i] + 1
    /\ \/ /\ sent' = [sent EXCEPT ![i] = @ \cup {"SIGTERM-group"}]
          /\ pc' = [pc EXCEPT ![i] = "th_grace"]
          /\ UNCHANGED <<refused, manual_commands, ret>>
       \/ /\ refused' = [refused EXCEPT ![i] = @ \cup {"killpg"}]
          /\ ThreadTimedOut(i)
          /\ UNCHANGED sent
    /\ UNCHANGED <<threadFrame, req, proc, status, deadline, description, active_processes,
                   skip_count, loaded>>

\* _terminate_process_group, lines 175-177, in a thread: the child ended in time.
ThreadGraceExit(i) ==
    /\ engine = "threads"
    /\ pc[i] = "th_grace"
    /\ proc[i] = "zombie"
    /\ proc' = [proc EXCEPT ![i] = "reaped"]
    /\ ThreadTimedOut(i)
    /\ UNCHANGED <<threadFrame, req, status, sent, refused, deadline, description,
                   active_processes, timeout_count, skip_count, loaded>>

\* _terminate_process_group, lines 178-183, in a thread: SIGKILL to the group.
ThreadGraceElapsed(i) ==
    /\ engine = "threads"
    /\ pc[i] = "th_grace"
    /\ proc[i] = "running"
    /\ Due(i)
    /\ sent' = [sent EXCEPT ![i] = @ \cup {"SIGKILL-group"}]
    /\ pc' = [pc EXCEPT ![i] = "th_kill"]
    /\ UNCHANGED <<threadFrame, req, proc, status, refused, deadline, managerVars, loaded>>

\* _terminate_process_group, line 184, in a thread: process.wait() returns.
ThreadKillWait(i) ==
    /\ engine = "threads"
    /\ pc[i] = "th_kill"
    /\ proc[i] = "zombie"
    /\ proc' = [proc EXCEPT ![i] = "reaped"]
    /\ ThreadTimedOut(i)
    /\ UNCHANGED <<threadFrame, req, status, sent, refused, deadline, description,
                   active_processes, timeout_count, skip_count, loaded>>

\* Line 162 in a thread: del self.active_processes[description]. If another thread
\* has deleted the key since the test, del raises KeyError, which leaves the call
\* in place of the value of the return statement.
ThreadDelete(i) ==
    /\ engine = "threads"
    /\ pc[i] = "th_del"
    /\ IF active_processes[description[i]] # 0
       THEN /\ active_processes' = Finally(description[i])
            /\ UNCHANGED ret
       ELSE /\ ret' = [ret EXCEPT ![i] = [kind |-> "raised", success |-> FALSE,
                                          stdout |-> "", stderr |-> "KeyError"]]
            /\ UNCHANGED active_processes
    /\ pc' = [pc EXCEPT ![i] = "done"]
    /\ UNCHANGED <<threadFrame, req, childVars, description, timeout_count, skip_count,
                   manual_commands, loaded>>

\* --------------------------------------------------------------------- report
\* How a whole call of run_with_timeout can end: exit status 0, another exit
\* status, the timeout, or an exception of Popen / communicate.
Outcomes == {"success", "warnings", "timeout", "FileNotFoundError", "UnicodeDecodeError"}

\* manual_commands with the record put in front.
PrependManual(rec) == <<rec>> \o manual_commands

\* self.manual_commands.append (lines 135-139, 151-155).
AppendManual(rec) == Append(manual_commands, rec)

\* run_with_timeout (lines 94-162) as one step: the call blocks its caller, so
\* get_summary and save_manual_commands meet the manager between two calls only.
\* The entry in active_processes is made and deleted within the call.
RunWithTimeout ==
    /\ engine = "report"
    /\ Len(outcomes) < MaxCalls
    /\ \E d \in Descriptions, o \in Outcomes :
          /\ outcomes' = Append(outcomes, o)
          /\ IF o \in {"success", "warnings"}
             THEN UNCHANGED <<timeout_count, skip_count, manual_commands>>
             ELSE IF o = "timeout"
             THEN /\ timeout_count' = timeout_count + 1
                  /\ manual_commands' =
                        AppendManual(ManualRecord(Len(outcomes) + 1, d, "Timeout"))
                  /\ UNCHANGED skip_count
             ELSE /\ skip_count' = skip_count + 1
                  /\ manual_commands' = AppendManual(ManualRecord(Len(outcomes) + 1, d, o))
                  /\ UNCHANGED timeout_count
    /\ UNCHANGED <<config, utilVars, threadVars, batch, cleaner, script, summary, pc, req, childVars, runnerVars,
                   description, active_processes, ret, age, left>>

NoSummary == [kind |-> "none", timeouts |-> 0, skipped |-> 0, manual_commands |-> <<>>,
              active_processes |-> 0]

\* get_summary (lines 189-198); the execution time is left out. The caller of the
\* blocking run_with_timeout gets to call it between two calls only.
GetSummary ==
    /\ \/ engine = "report"
       \/ engine = "manager" /\ \A i \in Tasks : pc[i] \in {"idle", "done"}
    /\ summary' = [kind |-> "value",
                   timeouts |-> timeout_count,
                   skipped |-> skip_count,
                   manual_commands |-> manual_commands,
                   active_processes |->
                       Cardinality({d \in Descriptions : active_processes[d] # 0})]
    /\ UNCHANGED <<config, utilVars, threadVars, batch, cleaner, outcomes, script, pc, req, childVars, runnerVars,
                   managerVars, age, left>>

\* One line of the script: what the format string puts in front, and the text
\* (<<>> for none).
Line(mark, text) == [mark |-> mark, text |-> text]

\* RecordLines with the reason written without the leading "# ".
RecordLinesBare(r) ==
    << Line("# ", <<r.description>>),
       Line("Reason: ", <<r.reason>>),
       Line("", <<r.command>>),
       Line("", <<>>) >>

\* The three lines written for one record (lines 219-221), the last one ending
\* in two newlines: a blank line follows.
RecordLines(r) ==
    << Line("# ", <<r.description>>),
       Line("# Reason: ", <<r.reason>>),
       Line("", <<r.command>>),
       Line("", <<>>) >>

RECURSIVE AllRecordLines(_)
AllRecordLines(records) ==
    IF records = <<>> THEN <<>>
    ELSE RecordLines(Head(records)) \o AllRecordLines(Tail(records))

\* The script file (lines 213-221): the header, then the records.
ScriptLines(records) ==
    << Line("#!", <<"/bin/bash">>),
       Line("# ", <<"Manual commands that timed out or failed">>),
       Line("# ", <<"Review and execute manually as needed">>),
       Line("", <<>>) >>
    \o AllRecordLines(records)

\* save_manual_commands (lines 200-224): nothing is written for an empty list. (The
\* JSON file written next to the script is left out.)
SaveManualCommands ==
    /\ engine = "report"
    /\ IF manual_commands = <<>> THEN UNCHANGED script
       ELSE script' = ScriptLines(manual_commands)
    /\ UNCHANGED <<config, utilVars, threadVars, batch, cleaner, outcomes, summary, pc, req, childVars, runnerVars,
                   managerVars, age, left>>

\* ----------------------------------------------------------------- get_runner
\* _default_runner = None (line 250).
NoRunner == [kind |-> "none", serial |-> 0, timeout |-> 0, max_concurrent |-> 0]

\* The arguments callers hand to get_runner: timeouts (in ticks) and capacities.
Timeouts == {TimeoutTicks, TimeoutTicks + 1}
Capacities == {MaxConcurrent, MaxTasks}

\* AsyncRunner.__init__ (lines 43-53): a new instance, told apart by its serial.
AsyncRunner(serial, timeout, n) ==
    [kind |-> "value", serial |-> serial, timeout |-> timeout, max_concurrent |-> n]

\* get_runner constructing an instance on every call.
GetRunnerFresh ==
    /\ engine = "default"
    /\ Len(handed) < MaxCalls
    /\ \E t \in Timeouts, n \in Capacities :
          /\ default_runner' = AsyncRunner(Len(handed) + 1, t, n)
          /\ handed' = Append(handed, [timeout |-> t, max_concurrent |-> n,
                                       runner |-> default_runner'])
    /\ UNCHANGED <<config, threadVars, otherCalls, search_path, names, tools, pc, req, childVars,
                   runnerVars, managerVars, age, left>>

\* get_runner (lines 253-261): the instance is constructed by the first call, from
\* that call's arguments; every call returns _default_runner.
GetRunner ==
    /\ engine = "default"
    /\ Len(handed) < MaxCalls
    /\ \E t \in Timeouts, n \in Capacities :
          /\ default_runner' = IF default_runner.kind = "none"
                               THEN AsyncRunner(Len(handed) + 1, t, n)
                               ELSE default_runner
          /\ handed' = Append(handed, [timeout |-> t, max_concurrent |-> n,
                                       runner |-> default_runner'])
    /\ UNCHANGED <<config, threadVars, otherCalls, search_path, names, tools, pc, req, childVars,
                   runnerVars, managerVars, age, left>>

\* _get_semaphore (lines 55-59) of the default runner, as its run calls it: the
\* semaphore is created on first use with the instance's max_concurrent.
GetDefaultSemaphore ==
    /\ engine = "default"
    /\ default_runner.kind = "value"
    /\ ~semaphore.created
    /\ semaphore' = [created |-> TRUE, value |-> default_runner.max_concurrent]
    /\ UNCHANGED <<config, utilVars, threadVars, otherCalls, pc, req, childVars, processes, result,
                   managerVars, age, left>>

\* ------------------------------------------------------------------- tools.py
MaxNames == 3          \* longest list of names handed to tools.py
\* Names of tools: two with an entry in INSTALL_HINTS, one without.
ToolNames == {"subfinder", "httpx", "mytool"}
HintedTools == {"subfinder", "httpx"}
\* What running a found binary with the version flags gives.
Probes == {"matched", "nomatch", "oserror"}

\* A function of tools.py that has not been called yet.
NoTools == [kind |-> "none"]

\* The results of the four functions, none of them called yet.
NotCalled == [available |-> NoTools, missing |-> NoTools, required |-> NoTools,
              info |-> NoTools]

\* shutil.which(name) on the fixed search path: the path of the binary, or None.
Which(name) == IF name \in search_path THEN <<"bin", name>> ELSE "None"

\* INSTALL_HINTS.get(name) (lines 24-38): only well-known tools have a hint.
InstallHint(name) == IF name \in HintedTools THEN <<"install", name>> ELSE "None"

\* The dataclass ToolInfo (lines 13-20).
ToolInfo(name, binary, available, version, install_hint) ==
    [kind |-> "value", name |-> name, binary |-> binary, available |-> available,
     version |-> version, install_hint |-> install_hint]

\* check_tool (lines 53-96). probe is what running the binary with the version
\* flags gave: "matched" (some flag printed a version), "nomatch" (no flag did, or
\* each run timed out), "oserror" (subprocess.run raised something the inner except
\* does not name; the outer `except Exception: pass` swallows it).
CheckTool(name, probe) ==
    LET binary == Which(name)
    IN  IF binary = "None"
        THEN ToolInfo(name, "None", FALSE, "None", InstallHint(name))
        ELSE ToolInfo(name, binary, TRUE,
                      IF probe = "matched" THEN "version" ELSE "None",
                      InstallHint(name))

\* get_available_tools (lines 104-106): [name for name in names if shutil.which(name)].
GetAvailableTools(ns) == SelectSeq(ns, LAMBDA name : Which(name) # "None")

\* Only the first name that is not found.
GetMissingToolsFirst(ns) ==
    LET m == SelectSeq(ns, LAMBDA name : Which(name) = "None")
    IN  IF m = <<>> THEN <<>> ELSE <<Head(m)>>

\* get_missing_tools (lines 109-111): [name for name in names if not shutil.which(name)].
GetMissingTools(ns) == SelectSeq(ns, LAMBDA name : Which(name) = "None")

\* require_tools (lines 114-120): (len(missing) == 0, missing).
RequireTools(ns) ==
    LET missing == GetMissingTools(ns)
    IN  <<Len(missing) = 0, missing>>

\* What a call of tools.py leaves alone: everything but its result.
toolFrame == <<config, threadVars, otherCalls, default_runner, handed, search_path, names,
               pc, req, childVars, runnerVars, managerVars, age, left>>

\* A caller calls get_available_tools(names).
CallGetAvailableTools ==
    /\ engine = "tools"
    /\ tools' = [tools EXCEPT !.available = [kind |-> "value", value |-> GetAvailableTools(names)]]
    /\ UNCHANGED toolFrame

\* A caller calls get_missing_tools(names).
CallGetMissingTools ==
    /\ engine = "tools"
    /\ tools' = [tools EXCEPT !.missing = [kind |-> "value", value |-> GetMissingTools(names)]]
    /\ UNCHANGED toolFrame

\* A caller calls require_tools(names).
CallRequireTools ==
    /\ engine = "tools"
    /\ tools' = [tools EXCEPT !.required = [kind |-> "value", value |-> RequireTools(names)]]
    /\ UNCHANGED toolFrame

\* A caller calls check_tool on one of the names.
CallCheckTool ==
    /\ engine = "tools"
    /\ \E k \in 1..Len(names), probe \in Probes :
          tools' = [tools EXCEPT !.info = CheckTool(names[k], probe)]
    /\ UNCHANGED toolFrame

\* -------------------------------------------------------------- specification
\* The state after the constructors (AsyncRunner.__init__,
\* ProfessionalTimeoutManager.__init__): nothing submitted yet.
Instances ==
    /\ pc = [i \in Tasks |-> "idle"]
    /\ req = [i \in Tasks |-> "ok"]
    /\ proc = [i \in Tasks |-> "none"]
    /\ status = [i \in Tasks |-> 0]
    /\ sent = [i \in Tasks |-> {}]
    /\ refused = [i \in Tasks |-> {}]
    /\ deadline = [i \in Tasks |-> "no"]
    /\ semaphore = [created |-> FALSE, value |-> 0]
    /\ processes = <<>>
    /\ result = [i \in Tasks |-> NoResult]
    /\ description = [i \in Tasks |-> "scan"]
    /\ active_processes = [d \in Descriptions |-> 0]
    /\ timeout_count = 0
    /\ skip_count = 0
    /\ manual_commands = <<>>
    /\ ret = [i \in Tasks |-> NoReturn]
    /\ age = [i \in Tasks |-> 0]
    /\ left = [i \in Tasks |-> 0]
    /\ batch = NoBatch
    /\ cleaner = NoCleanup
    /\ outcomes = <<>>
    /\ script = <<>>
    /\ summary = NoSummary
    /\ loaded = [i \in Tasks |-> 0]
    /\ default_runner = NoRunner
    /\ handed = <<>>

\* The same, with nothing of tools.py called.
Constructed ==
    /\ Instances
    /\ search_path = {}
    /\ names = <<>>
    /\ tools = NoTools

Init ==
    /\ engine \in Engines
    /\ timed = FALSE
    /\ max_concurrent = MaxConcurrent
    /\ Constructed

Next ==
    \E i \in Tasks :
        \/ ChildExit(i)
        \/ Submit(i)
        \/ Acquire(i)
        \/ Launch(i)
        \/ CommunicateReturns(i)
        \/ CommunicateRaises(i)
        \/ Timeout(i)
        \/ GraceElapsed(i)
        \/ GracePidElapsed(i)
        \/ SyncStart(i)
        \/ SyncReturns(i)
        \/ SyncTimeout(i)
        \/ ManagerCall(i)
        \/ ManagerReturns(i)
        \/ ManagerTimeout(i)
        \/ ManagerGraceExit(i)
        \/ ManagerGraceElapsed(i)
        \/ ManagerKillWait(i)

Spec == Init /\ [][Next]_vars

\* A step of invocation i's own coroutine / call that is always possible once its
\* condition holds: a due timer of wait_for or sleep fires, a blocking call returns.
\* (Nothing makes the capture of the output fail, and nothing makes a child end.)
Step(i) ==
    \/ Submit(i) \/ Launch(i) \/ CommunicateReturns(i) \/ Timeout(i)
    \/ GraceElapsed(i) \/ GracePidElapsed(i)
    \/ SyncStart(i) \/ SyncReturns(i) \/ SyncTimeout(i)
    \/ ManagerCall(i) \/ ManagerReturns(i) \/ ManagerTimeout(i)
    \/ ManagerGraceExit(i) \/ ManagerGraceElapsed(i) \/ ManagerKillWait(i)

\* The kernel ends a child that was sent SIGKILL.
Killed(i) == sent[i] \cap {"SIGKILL-group", "SIGKILL-pid"} # {} /\ ChildExit(i)

\* What the scheduling guarantees to invocation i: the event loop runs a coroutine
\* that is ready, asyncio.Semaphore wakes its waiters in FIFO order (no waiter is
\* passed over for ever), and SIGKILL cannot be ignored.
Fairness(i) == WF_vars(Step(i)) /\ SF_vars(Acquire(i)) /\ WF_vars(Killed(i))

SpecFair == Init /\ [][Next]_vars /\ \A i \in Tasks : Fairness(i)

\* ------------------------------------------------------------------ batches
\* The invocations are the batch of one run_many call.
NextBatch == Next \/ RunMany

SpecBatch == Init /\ [][NextBatch]_vars

\* ------------------------------------------------------------------ shutdown
\* An AsyncRunner whose cleanup() is called while invocations are submitted and
\* run; its capacity is the smallest one or the number of invocations. Captures
\* work and process-group signals go through in this scenario.
InitShutdown ==
    /\ engine = "shutdown"
    /\ timed = FALSE
    /\ max_concurrent \in {MaxConcurrent, MaxTasks}
    /\ Constructed

NextShutdown ==
    \/ Cleanup
    \/ CleanupGraceElapsed
    \/ \E i \in Tasks :
          \/ ChildExit(i)
          \/ Submit(i)
          \/ Acquire(i)
          \/ Launch(i)
          \/ CommunicateReturns(i)
          \/ Timeout(i)
          \/ GraceElapsed(i)

SpecShutdown == InitShutdown /\ [][NextShutdown]_vars

\* A ProfessionalTimeoutManager shared by threads, one per invocation.
InitThreads ==
    /\ engine = "threads"
    /\ timed = FALSE
    /\ max_concurrent = MaxConcurrent
    /\ Constructed

NextThreads ==
    \E i \in Tasks :
        \/ ChildExit(i)
        \/ ThreadCall(i)
        \/ ThreadReturns(i)
        \/ ThreadSkip(i)
        \/ ThreadTimeout(i)
        \/ ThreadTerminate(i)
        \/ ThreadGraceExit(i)
        \/ ThreadGraceElapsed(i)
        \/ ThreadKillWait(i)
        \/ ThreadDelete(i)

SpecThreads == InitThreads /\ [][NextThreads]_vars

\* The module-level default runner, asked for by several callers.
InitDefault ==
    /\ engine = "default"
    /\ timed = FALSE
    /\ max_concurrent = MaxConcurrent
    /\ Constructed

NextDefault == GetRunner \/ GetDefaultSemaphore

SpecDefault == InitDefault /\ [][NextDefault]_vars

\* The functions of tools.py, called on one list of names with one search path:
\* any list of up to MaxNames names, repetitions included, and any set of
\* installed tools.
InitTools ==
    /\ engine = "tools"
    /\ timed = FALSE
    /\ max_concurrent = MaxConcurrent
    /\ Instances
    /\ search_path \in SUBSET ToolNames
    /\ names \in UNION {[1..n -> ToolNames] : n \in 0..MaxNames}
    /\ tools = NotCalled

NextTools ==
    \/ CallGetAvailableTools
    \/ CallGetMissingTools
    \/ CallRequireTools
    \/ CallCheckTool

SpecTools == InitTools /\ [][NextTools]_vars

\* ------------------------------------------------------------------ summaries
\* A ProfessionalTimeoutManager whose calls of run_with_timeout are followed step
\* by step, with get_summary called between them.
InitSummary ==
    /\ engine = "manager"
    /\ timed = FALSE
    /\ max_concurrent = MaxConcurrent
    /\ Constructed

NextSummary ==
    \/ GetSummary
    \/ \E i \in Tasks :
          \/ ChildExit(i)
          \/ ManagerCall(i)
          \/ ManagerReturns(i)
          \/ ManagerTimeout(i)
          \/ ManagerGraceExit(i)
          \/ ManagerGraceElapsed(i)
          \/ ManagerKillWait(i)

SpecSummary == InitSummary /\ [][NextSummary]_vars

\* ------------------------------------------------------------ side by side
\* An engine with a slot for every submission: the children of an AsyncRunner run
\* side by side (run_with_timeout blocks its caller, so its calls follow each
\* other also here).
InitSideBySide ==
    /\ engine \in {"async", "manager"}
    /\ timed = FALSE
    /\ max_concurrent = MaxTasks
    /\ Constructed

NextSideBySide ==
    \E i \in Tasks :
        \/ ChildExit(i)
        \/ Submit(i)
        \/ Launch(i)
        \/ CommunicateReturns(i)
        \/ CommunicateRaises(i)
        \/ Timeout(i)
        \/ GraceElapsed(i)
        \/ GracePidElapsed(i)
        \/ ManagerCall(i)
        \/ ManagerReturns(i)
        \/ ManagerTimeout(i)
        \/ ManagerGraceExit(i)
        \/ ManagerGraceElapsed(i)
        \/ ManagerKillWait(i)

SpecSideBySide == InitSideBySide /\ [][NextSideBySide]_vars

\* ------------------------------------------------------------- _kill_process
\* Both callers of _kill_process: the timeout path of run with os.killpg raising
\* or not (no cleanup() then), and cleanup() next to the timeout path.
InitKill ==
    \/ InitShutdown
    \/ /\ engine = "async"
       /\ timed = FALSE
       /\ max_concurrent = MaxConcurrent
       /\ Constructed

NextKill ==
    \/ NextShutdown
    \/ \E i \in Tasks : GracePidElapsed(i)

SpecKill == InitKill /\ [][NextKill]_vars

\* A ProfessionalTimeoutManager used as k1ngb0b_recon_II.py uses it: blocking calls
\* of run_with_timeout, with get_summary and save_manual_commands in between.
InitReport ==
    /\ engine = "report"
    /\ timed = FALSE
    /\ max_concurrent = MaxConcurrent
    /\ Constructed

NextReport == RunWithTimeout \/ GetSummary \/ SaveManualCommands

SpecReport == InitReport /\ [][NextReport]_vars

\* ------------------------------------------------------------ logical clock
\* Invocation i can take a step without time passing: its coroutine is ready, its
\* blocking call can return, its timer is due, or its child was sent SIGKILL.
Urgent(i) ==
    \/ pc[i] = "launch"
    \/ pc[i] = "acquire" /\ semaphore.value > 0
    \/ pc[i] = "wait" /\ (proc[i] = "reaped" \/ Due(i))
    \/ pc[i] \in {"grace", "grace_pid"} /\ Due(i)
    \/ pc[i] \in {"tm_wait", "tm_grace"} /\ (proc[i] = "zombie" \/ Due(i))
    \/ pc[i] = "tm_kill" /\ proc[i] = "zombie"
    \/ proc[i] = "running" /\ sent[i] \cap {"SIGKILL-group", "SIGKILL-pid"} # {}

\* One tick of the logical clock: time passes when nothing is urgent. Every
\* invocation in progress gets older, every running timer comes closer.
Tick ==
    /\ timed
    /\ \A i \in Tasks : ~Urgent(i)
    /\ age' = [i \in Tasks |->
                 IF pc[i] \notin {"idle", "done"} /\ age[i] < MaxAge THEN age[i] + 1
                 ELSE age[i]]
    /\ left' = [i \in Tasks |-> IF left[i] > 0 THEN left[i] - 1 ELSE 0]
    /\ UNCHANGED <<config, utilVars, threadVars, otherCalls, pc, req, childVars, runnerVars, managerVars>>

\* AsyncRunner.run and run_with_timeout with the clock kept.
InitTimed ==
    /\ engine \in {"async", "manager"}
    /\ timed = TRUE
    /\ max_concurrent = MaxConcurrent
    /\ Constructed

NextTimed ==
    \/ Tick
    \/ \E i \in Tasks :
          \/ ChildExit(i)
          \/ Submit(i)
          \/ Acquire(i)
          \/ Launch(i)
          \/ CommunicateReturns(i)
          \/ CommunicateRaises(i)
          \/ Timeout(i)
          \/ GraceElapsed(i)
          \/ GracePidElapsed(i)
          \/ ManagerCall(i)
          \/ ManagerReturns(i)
          \/ ManagerTimeout(i)
          \/ ManagerGraceExit(i)
          \/ ManagerGraceElapsed(i)
          \/ ManagerKillWait(i)

SpecTimed == InitTimed /\ [][NextTimed]_vars
\* ---------------------------------------------------------------------- claims
\* A child that was spawned and whose status has not been collected.
Unreaped(i) == proc[i] \in {"running", "zombie"}

\* Invocation i is inside "async with semaphore".
HoldsSlot(i) == pc[i] \in {"launch", "wait", "grace", "grace_pid"}

HasReturned(i) == pc[i] = "done"

\* C1: with capacity N, the number of children of AsyncRunner.run that are spawned
\* and not yet reaped never exceeds N. Counted are the children of the invocations
\* in progress and the children that were sent a termination signal (a child left
\* behind by a failed capture, C8, is not needed to exceed N).
C1_AtMostNUnreaped ==
    engine = "async" =>
        Cardinality({i \in Tasks : Unreaped(i) /\ (HoldsSlot(i) \/ sent[i] # {})})
            <= MaxConcurrent

\* C2: an invocation of AsyncRunner.run holds its slot from before the spawn until
\* its child is reaped; on the timeout path the slot is not released merely
\* because a termination signal was sent.
C2_SlotHeldUntilReaped ==
    engine = "async" =>
        \A i \in Tasks :
            /\ proc[i] # "none" => pc[i] \notin {"idle", "acquire"}
            /\ (Unreaped(i) /\ sent[i] # {}) => HoldsSlot(i)

\* C3: when the timeout of an invocation of AsyncRunner.run elapsed with its child
\* still running, the returned result has timed_out = TRUE and is no success.
C3_TimedOutFlag ==
    \A i \in Tasks :
        (engine = "async" /\ HasReturned(i) /\ deadline[i] = "running")
            => /\ result[i].kind = "value"
               /\ result[i].timed_out
               /\ ~success(result[i])

\* C3 witness: an invocation timed out and returned while another one was in flight.
C3_Witness ==
    \E i, j \in Tasks :
        /\ engine = "async" /\ i # j
        /\ HasReturned(i) /\ deadline[i] = "running" /\ result[i].timed_out
        /\ pc[j] \in {"acquire", "launch", "wait", "grace", "grace_pid"}

\* C4: a result with timed_out = TRUE, from AsyncRunner.run or from run_sync,
\* carries the return code 124.
C4_TimeoutSentinel ==
    \A i \in Tasks :
        (engine \in {"async", "sync"} /\ HasReturned(i) /\ result[i].timed_out)
            => result[i].returncode = RcTimeout
\* C5: no result of run, run_tool or run_sync for a timed-out, failed-to-spawn or
\* non-zero-exit invocation is a success: a successful result belongs to a child
\* that was spawned, was sent no signal, exited with status 0 and met no timeout;
\* and the result of a child that exited with 0 and was captured is a success.
C5_SuccessIffZeroAndNotTimedOut ==
    \A i \in Tasks :
        (engine \in {"async", "sync"} /\ HasReturned(i)) =>
            /\ success(result[i]) =>
                  /\ req[i] = "ok" /\ proc[i] = "reaped" /\ status[i] = ExitOk
                  /\ deadline[i] = "no" /\ sent[i] = {}
            /\ (result[i].stderr = "child" /\ status[i] = ExitOk) => success(result[i])

\* C5 witness: a timed-out invocation whose child ended with status 0 (it caught
\* SIGTERM), next to a successful one.
C5_Witness ==
    \E i, j \in Tasks :
        /\ engine = "async" /\ HasReturned(i) /\ HasReturned(j)
        /\ result[i].timed_out /\ result[i].returncode = 0 /\ ~success(result[i])
        /\ success(result[j])

\* C6: a submission for a tool that cannot be found returns return code 127,
\* timed_out FALSE, no success; it spawned nothing, left no entry in _processes and
\* holds no slot (free slots plus slot holders are the capacity).
C6_MissingTool ==
    \A i \in Tasks :
        (engine = "async" /\ HasReturned(i) /\ req[i] = "missing") =>
            /\ result[i].kind = "value"
            /\ result[i].returncode = RcNotFound
            /\ ~result[i].timed_out
            /\ ~success(result[i])
            /\ proc[i] = "none"
            /\ ~InList(processes, i)
            /\ semaphore.created =>
                  semaphore.value + Cardinality({j \in Tasks : HoldsSlot(j)}) = MaxConcurrent

\* C6 witness: absence detected at resolution time (run_tool) and at spawn time (run).
C6_Witness ==
    \E i, j \in Tasks :
        /\ engine = "async" /\ HasReturned(i) /\ HasReturned(j)
        /\ req[i] = "missing" /\ result[i].stderr = "Tool not found in PATH"
        /\ req[j] = "missing" /\ result[j].stderr = "Command not found"

\* C7: every call of run, run_tool, run_sync and run_with_timeout that has ended
\* has returned one value and raised nothing, and no value exists before the end.
C7_OneResultNoRaise ==
    \A i \in Tasks :
        /\ result[i].kind # "raised" /\ ret[i].kind # "raised"
        /\ HasReturned(i) =>
              IF engine = "manager"
              THEN ret[i].kind = "value" /\ result[i].kind = "none"
              ELSE result[i].kind = "value" /\ ret[i].kind = "none"
        /\ ~HasReturned(i) => (result[i].kind = "none" /\ ret[i].kind = "none")

\* C7 witness: a call that met a spawn failure and one that met a capture error or
\* a timeout have both returned.
C7_Witness ==
    \E i, j \in Tasks :
        /\ HasReturned(i) /\ HasReturned(j)
        /\ req[i] = "denied"
        /\ req[j] = "ok" /\ (deadline[j] # "no" \/ result[j].stderr = "Exception")

\* Every submitted invocation has returned.
AllReturned == (\E i \in Tasks : HasReturned(i)) /\ \A i \in Tasks : pc[i] \in {"idle", "done"}

\* C8: once every submitted invocation has returned, _processes is empty and
\* active_processes has no entry.
C8_RegistryEmptyAtEnd ==
    AllReturned => /\ processes = <<>>
                   /\ \A d \in Descriptions : active_processes[d] = 0

\* C9: a child that is running or killed but unreaped still has its entry in
\* _processes / active_processes. Stated for the children sent a signal or whose
\* invocation is in progress.
C9_EntryUntilReaped ==
    \A i \in Tasks :
        (Unreaped(i) /\ (sent[i] # {} \/ ~HasReturned(i))) =>
            /\ engine = "async" => InList(processes, i)
            /\ engine = "manager" => active_processes[description[i]] = i

\* The invocations of run_with_timeout that returned without success, in
\* submission order.
RECURSIVE Unsuccessful(_)
Unsuccessful(n) ==
    IF n = 0 THEN <<>>
    ELSE IF HasReturned(n) /\ ~ret[n].success THEN Append(Unsuccessful(n - 1), n)
    ELSE Unsuccessful(n - 1)

\* C10: after any sequence of run_with_timeout calls, manual_commands holds one
\* record for each invocation that was no success, in submission order, and none
\* for a successful one.
C10_ManualLogComplete ==
    (engine = "manager" /\ AllReturned) =>
        [k \in 1..Len(manual_commands) |-> manual_commands[k].command]
            = Unsuccessful(MaxTasks)

\* ------------------------------------------------- termination sequence
Graceful == {"SIGTERM-group", "SIGTERM-pid"}
Forceful == {"SIGKILL-group", "SIGKILL-pid"}

\* Where an invocation stands in the supervisor's state machine.
Running(i) == pc[i] \in {"wait", "tm_wait"}
Terminating(i) == pc[i] \in {"grace", "grace_pid", "tm_grace"}
Killing(i) == pc[i] = "tm_kill"

\* C11: within one invocation of AsyncRunner.run or run_with_timeout the supervisor
\* goes from RUNNING to TERMINATING to KILLING and never back; no signal is sent
\* before the deadline elapsed; a forceful signal is sent only from TERMINATING,
\* after a graceful one was sent and with the child still alive.
C11_StrictOrder ==
    [][\A i \in Tasks :
          engine \in {"async", "manager"} =>
             /\ sent'[i] # sent[i] =>
                   /\ deadline'[i] # "no"
                   /\ Running(i) \/ Terminating(i)
             /\ (sent'[i] \ sent[i]) \cap Graceful # {} => sent[i] \cap Forceful = {}
             /\ (sent'[i] \ sent[i]) \cap Forceful # {} =>
                   /\ Terminating(i)
                   /\ sent[i] \cap Graceful # {}
                   /\ proc[i] = "running"
             /\ Terminating(i) => ~Running(i)'
             /\ Killing(i) => ~(Running(i)' \/ Terminating(i)')
      ]_vars

\* C11 witness: a child that ignored the graceful signal was sent the forceful one.
C11_Witness ==
    \E i \in Tasks :
        /\ engine \in {"async", "manager"}
        /\ "SIGTERM-group" \in sent[i] /\ "SIGKILL-group" \in sent[i]
        /\ proc[i] = "running"

\* C12: every termination signal sent on timeout, by _kill_process or by
\* _terminate_process_group, goes to the child's process group and never to the
\* child's pid alone.
C12_GroupOnly ==
    \A i \in Tasks :
        engine \in {"async", "manager"} => sent[i] \subseteq {"SIGTERM-group", "SIGKILL-group"}

\* Invocation i was submitted and has not returned.
InProgress(i) == pc[i] \notin {"idle", "done"}

\* C13: under fair scheduling every invocation submitted through AsyncRunner.run or
\* run_with_timeout eventually returns, also when more invocations than slots are
\* submitted at once and when the child neither exits by itself nor on SIGTERM.
\* An invocation is submitted once and a returned one stays returned, so this is:
\* from some moment on no invocation is in progress any more.
C13_EventuallyReturns ==
    <>[](\A i \in Tasks : engine \in {"async", "manager"} => ~InProgress(i))

\* C13 witness: an invocation whose child had to be sent SIGKILL has returned while
\* another invocation, submitted with it, still waits for the only slot.
C13_Witness ==
    \E i, j \in Tasks :
        /\ engine = "async"
        /\ HasReturned(i) /\ "SIGKILL-group" \in sent[i]
        /\ pc[j] = "acquire"

\* C14: a submission with timeout T has returned at the latest T plus the grace
\* window after it was submitted, in ticks of the logical clock, for AsyncRunner.run
\* and run_with_timeout. (Stated for the behaviours in which every process-group
\* signal went through and every capture worked: the fallback of _kill_process
\* sleeps a second time.)
C14_ReturnsWithinBound ==
    (/\ timed
     /\ \A j \in Tasks : "SIGTERM-pid" \notin sent[j] /\ result[j].stderr # "Exception")
        => \A i \in Tasks : age[i] <= TimeoutTicks + GraceTicks

\* The result r is one that run gives for a command the OS answers with cmd.
Belongs(r, cmd) ==
    /\ r.kind = "value"
    /\ cmd = "missing" => r.returncode = RcNotFound /\ ~r.timed_out
    /\ cmd = "denied" => r.returncode = RcError /\ r.stderr = "PermissionError"
    /\ cmd = "ok" => r.stderr \in {"child", "Timeout exceeded", "Exception"}

\* C15: run_many over a batch of k commands never raises and returns exactly k
\* results, the i-th being the result of the i-th command, whichever commands fail
\* to spawn, exit non-zero or time out.
C15_RunManyComplete ==
    /\ batch.kind # "raised"
    /\ batch.kind = "value" =>
          /\ Len(batch.list) = MaxTasks
          /\ \A i \in Tasks : batch.list[i] = result[i] /\ Belongs(batch.list[i], req[i])

\* C15 witness: run_many returned for a batch with a command that failed to spawn
\* and a command that timed out.
C15_Witness ==
    /\ batch.kind = "value"
    /\ \E i, j \in Tasks :
          /\ req[i] # "ok" /\ ~success(batch.list[i])
          /\ batch.list[j].timed_out

\* C16: under every interleaving of run() submissions, timeouts and cleanup(), no
\* slot is released twice or lost: the free slots never exceed the capacity and
\* free slots plus invocations inside "async with semaphore" are the capacity.
C16_SlotsConserved ==
    (engine = "shutdown" /\ semaphore.created) =>
        /\ semaphore.value >= 0
        /\ semaphore.value <= max_concurrent
        /\ semaphore.value + Cardinality({i \in Tasks : HoldsSlot(i)}) = max_concurrent

\* C16 witness: cleanup() has cleared the list under an invocation, that invocation
\* has left "async with" through the exception, and a waiter got its slot.
C16_Witness ==
    \E i, j \in Tasks :
        /\ engine = "shutdown" /\ max_concurrent < MaxTasks
        /\ cleaner.pc = "done"
        /\ HasReturned(i) /\ result[i].stderr = "ValueError"
        /\ HoldsSlot(j) /\ deadline[j] # "no"

\* C17: an invocation whose child exited by itself before the deadline (no signal
\* was sent to it, no timeout elapsed) returns the child's exit status with
\* timed_out = FALSE, also when cleanup() runs concurrently.
C17_ExitStatusReported ==
    \A i \in Tasks :
        (/\ engine = "shutdown" /\ HasReturned(i)
         /\ req[i] = "ok" /\ proc[i] = "reaped" /\ sent[i] = {} /\ deadline[i] = "no")
            => result[i].returncode = status[i] /\ ~result[i].timed_out

\* C18: when cleanup() has returned, every child that was registered and running
\* when it was called has exited or was sent a termination signal.
C18_CleanupKillsAll ==
    (engine = "shutdown" /\ cleaner.pc = "done") =>
        \A i \in cleaner.inflight : proc[i] = "reaped" \/ sent[i] # {}

\* ------------------------------------------------------------- manual commands
\* a is a prefix of b.
IsPrefix(a, b) == Len(a) <= Len(b) /\ \A k \in 1..Len(a) : a[k] = b[k]

\* C19: manual_commands is append-only: every step of run_with_timeout,
\* get_summary and save_manual_commands leaves the records that are there as
\* they are and in their order, so the list before a step is a prefix of the
\* list after it.
C19_AppendOnly == [][IsPrefix(manual_commands, manual_commands')]_vars

\* C19 witness: a summary was taken and the script written when one record was
\* there, and a further record has been appended since.
C19_Witness ==
    /\ engine = "report"
    /\ Len(manual_commands) >= 2
    /\ summary.kind = "value" /\ Len(summary.manual_commands) = 1
    /\ script = ScriptLines(SubSeq(manual_commands, 1, 1))

\* What bash makes of a line: a comment if it starts with "#", nothing if it is
\* empty, a command otherwise.
IsComment(l) == l.mark \in {"#!", "# ", "# Reason: "}
Executable(l) == ~IsComment(l) /\ ~(l.mark = "" /\ l.text = <<>>)
ExecPositions(ls) == {p \in 1..Len(ls) : Executable(ls[p])}
KthExec(ls, k) ==
    CHOOSE p \in ExecPositions(ls) : Cardinality({q \in ExecPositions(ls) : q <= p}) = k

\* The calls so far are a batch of three of which one timed out and two succeeded.
OneTimeoutTwoSuccesses ==
    /\ Len(outcomes) = 3
    /\ Cardinality({k \in 1..3 : outcomes[k] = "timeout"}) = 1
    /\ Cardinality({k \in 1..3 : outcomes[k] = "success"}) = 2

\* C20: the script save_manual_commands writes has one executable line per record
\* of manual_commands, in the order of the records, each right after the two
\* comment lines with its description and its reason; after a batch of three
\* calls with one timeout and two successes it has exactly one executable line.
C20_ScriptMatchesRecords ==
    [][script' # script =>
          /\ Cardinality(ExecPositions(script')) = Len(manual_commands)
          /\ \A k \in 1..Len(manual_commands) :
                LET p == KthExec(script', k) IN
                /\ script'[p] = Line("", <<manual_commands[k].command>>)
                /\ p > 2
                /\ script'[p - 2] = Line("# ", <<manual_commands[k].description>>)
                /\ script'[p - 1] = Line("# Reason: ", <<manual_commands[k].reason>>)
          /\ OneTimeoutTwoSuccesses => Cardinality(ExecPositions(script')) = 1
      ]_vars

\* C20 witness: the script written after a batch of three calls of which one
\* timed out and two succeeded.
C20_Witness ==
    /\ OneTimeoutTwoSuccesses
    /\ script = ScriptLines(manual_commands)
    /\ Cardinality(ExecPositions(script)) = 1

\* ------------------------------------------------------- timeouts and signals
\* A termination of invocation i's child was attempted: a signal was sent, or the
\* call that was to send one raised.
Attempted(i) == sent[i] # {} \/ refused[i] # {}

\* The outcome invocation i returned is a timed-out one.
TimedOutOutcome(i) ==
    IF engine = "manager" THEN ret[i].kind = "value" /\ ret[i].stderr = "Timeout"
    ELSE result[i].kind = "value" /\ result[i].timed_out

Outcome(i) == IF engine = "manager" THEN ret[i] ELSE result[i]

\* C22: the result of a timed-out invocation of AsyncRunner.run or
\* run_with_timeout whose child was running when the deadline elapsed and was
\* sent the graceful signal holds, in stdout and stderr, what the child had
\* written to its pipes before and during the graceful termination.
C22_PartialOutputKept ==
    \A i \in Tasks :
        (/\ engine \in {"async", "manager"}
         /\ HasReturned(i) /\ TimedOutOutcome(i) /\ deadline[i] = "running"
         /\ "SIGTERM-group" \in sent[i])
            => Outcome(i).stdout = "child" /\ Outcome(i).stderr = "child"

\* -------------------------------------------------------------- _kill_process
\* C23: _kill_process, called on the timeout path of run or by cleanup(), never
\* signals a process whose returncode is set: every step that sends a signal to
\* a child of AsyncRunner finds that child's exit status not collected (so nothing
\* is sent when returncode is set on entry, and the forceful signal is skipped
\* when the process exited during the sleep).
C23_NoSignalAfterCollected ==
    [][\A i \in Tasks :
          (engine \in Runners /\ sent'[i] # sent[i]) => ReturncodeIsNone(i)]_vars

\* C23 witness: cleanup() sent SIGTERM to a child no timeout had elapsed for, the
\* child exited during the sleep, and cleanup() returned without the SIGKILL.
C23_Witness ==
    \E i \in Tasks :
        /\ engine = "shutdown" /\ cleaner.pc = "done" /\ i \in cleaner.inflight
        /\ deadline[i] = "no"
        /\ proc[i] = "reaped" /\ sent[i] = {"SIGTERM-group"}

\* ------------------------------------------------------------------ isolation
\* The step is one of invocation i's timeout: its deadline elapses, or it goes on
\* after its deadline elapsed (grace sleeps, forceful signal, return).
TimeoutStep(i) ==
    \/ deadline'[i] # deadline[i]
    \/ deadline[i] # "no" /\ pc'[i] # pc[i]

SpawnFailed(i) == engine = "manager" /\ pc[i] = "idle" /\ pc'[i] = "done"

\* C25: when the child cannot be spawned, run_with_timeout returns
\* (False, "", reason), appends exactly one record with the command line and that
\* reason, adds one to skip_count, and leaves timeout_count and active_processes
\* as they are.
C25_SpawnFailure ==
    [][\A i \in Tasks :
          SpawnFailed(i) =>
             /\ req'[i] \in {"missing", "denied"}
             /\ ret'[i].kind = "value" /\ ~ret'[i].success /\ ret'[i].stdout = ""
             /\ ret'[i].stderr = (IF req'[i] = "missing" THEN "FileNotFoundError"
                                  ELSE "PermissionError")
             /\ manual_commands' =
                   Append(manual_commands,
                          ManualRecord(i, description'[i], ret'[i].stderr))
             /\ skip_count' = skip_count + 1
             /\ timeout_count' = timeout_count
             /\ active_processes' = active_processes
             /\ proc'[i] = "none"
      ]_vars

\* C25 witness: after a call that timed out, a call for a missing tool has
\* returned: one record each, timeout_count and skip_count both 1.
C25_Witness ==
    \E i, j \in Tasks :
        /\ engine = "manager" /\ HasReturned(i) /\ HasReturned(j)
        /\ ret[i].stderr = "Timeout" /\ req[j] = "missing"
        /\ Len(manual_commands) = 2 /\ manual_commands[2].command = j
        /\ timeout_count = 1 /\ skip_count = 1

\* ------------------------------------------------------------------- counters
\* The records of manual_commands that were written for a timeout.
TimeoutRecords == {k \in 1..Len(manual_commands) : manual_commands[k].reason = "Timeout"}

\* C26: whenever no call of run_with_timeout is in progress, timeout_count +
\* skip_count is the number of records in manual_commands and timeout_count the
\* number of records with a timeout as reason; and get_summary, called then,
\* reports these counters and zero active processes.
C26_CountersMatchRecords ==
    /\ (engine = "manager" /\ \A i \in Tasks : ~InProgress(i)) =>
          /\ timeout_count + skip_count = Len(manual_commands)
          /\ timeout_count = Cardinality(TimeoutRecords)
    /\ (engine = "manager" /\ summary.kind = "value") =>
          /\ summary.active_processes = 0
          /\ summary.timeouts + summary.skipped = Len(summary.manual_commands)

\* C26 witness: get_summary was called after a call that timed out and a call
\* that could not spawn, and reported 1 timeout, 1 skipped, 0 active processes.
C26_Witness ==
    /\ engine = "manager"
    /\ \A i \in Tasks : HasReturned(i)
    /\ summary.kind = "value" /\ summary.timeouts = 1 /\ summary.skipped = 1
    /\ summary.active_processes = 0 /\ Len(summary.manual_commands) = 2

\* -------------------------------------------------------------------- threads
\* C27: while a child launched by run_with_timeout runs and its call is in
\* progress, active_processes holds an entry that refers to that child, whatever
\* other threads call run_with_timeout, also with the same description.
C27_EntryPerRunningChild ==
    \A i \in Tasks :
        (/\ engine = "threads"
         /\ pc[i] \in {"th_wait", "th_count", "th_grace", "th_kill"}
         /\ proc[i] = "running")
            => active_processes[description[i]] = i

\* ----------------------------------------------------------------- get_runner
\* C28: every call of get_runner returns the instance the first call constructed,
\* and that instance keeps the timeout and the capacity given to the first call,
\* whatever later calls are given; the one semaphore of that instance has the
\* first call's capacity.
C28_OneDefaultRunner ==
    /\ handed = <<>> => default_runner = NoRunner
    /\ \A k \in 1..Len(handed) :
          /\ handed[k].runner = default_runner
          /\ handed[k].runner.serial = handed[1].runner.serial
          /\ handed[k].runner.timeout = handed[1].timeout
          /\ handed[k].runner.max_concurrent = handed[1].max_concurrent
    /\ (engine = "default" /\ semaphore.created) =>
          /\ handed # <<>>
          /\ semaphore.value = handed[1].max_concurrent

\* C28 witness: a second caller asked for another timeout and another capacity
\* than the first, and the semaphore has been created since.
C28_Witness ==
    /\ Len(handed) >= 2
    /\ handed[2].timeout # handed[1].timeout
    /\ handed[2].max_concurrent # handed[1].max_concurrent
    /\ semaphore.created

\* ------------------------------------------------------------- classification
\* The success flag of what invocation i returned: RunResult.success, or the first
\* component of run_with_timeout's tuple.
SuccessFlag(i) == IF engine = "manager" THEN ret[i].success ELSE success(result[i])

\* The capture of invocation i's output failed (communicate or the decoding raised).
CaptureFailed(i) == Outcome(i).stderr \in {"Exception", "UnicodeDecodeError"}

\* The child of invocation i was spawned, exited with code 0 and was waited for
\* before the deadline: of the child behaviours (cannot be spawned, does not exit
\* before the deadline, exits with code c before it) the one that is a success.
ExitedZeroInTime(i) == req[i] = "ok" /\ deadline[i] = "no" /\ status[i] = ExitOk

RECURSIVE IsSubsequence(_, _)
IsSubsequence(s, t) ==
    IF s = <<>> THEN TRUE
    ELSE IF t = <<>> THEN FALSE
    ELSE IF Head(s) = Head(t) THEN IsSubsequence(Tail(s), Tail(t))
    ELSE IsSubsequence(s, Tail(t))

\* How often name occurs in the list s.
Occurrences(name, s) == Cardinality({k \in 1..Len(s) : s[k] = name})

\* C30: on a fixed search path, get_available_tools and get_missing_tools split the
\* list of names (every name is in exactly one of the two lists, as often as in
\* the input and in the input's order), require_tools returns (True, []) exactly
\* when every name is found, and check_tool returns a ToolInfo: for a name that is
\* not found one with available False and binary None.
C30_ToolsPartition ==
    engine = "tools" =>
        /\ (tools.available.kind = "value" /\ tools.missing.kind = "value") =>
              LET a == tools.available.value
                  m == tools.missing.value
              IN  /\ IsSubsequence(a, names) /\ IsSubsequence(m, names)
                  /\ \A name \in ToolNames :
                        /\ Occurrences(name, a) + Occurrences(name, m) = Occurrences(name, names)
                        /\ Occurrences(name, a) = 0 \/ Occurrences(name, m) = 0
                        /\ Occurrences(name, a) > 0 => name \in search_path
                        /\ Occurrences(name, m) > 0 => name \notin search_path
        /\ tools.required.kind = "value" =>
              /\ (tools.required.value = <<TRUE, <<>> >>)
                     <=> (\A k \in 1..Len(names) : names[k] \in search_path)
              /\ tools.required.value[1] <=> (tools.required.value[2] = <<>>)
        /\ tools.info.kind # "none" =>
              /\ tools.info.kind = "value"
              /\ tools.info.name \notin search_path
                    => (tools.info.available = FALSE /\ tools.info.binary = "None")
              /\ tools.info.name \in search_path
                    => (tools.info.available = TRUE /\ tools.info.binary # "None")

\* C30 witness: a list with a repeated missing name around a found one; all four
\* functions have been called, check_tool on the missing name.
C30_Witness ==
    /\ engine = "tools"
    /\ Len(names) = MaxNames
    /\ names[1] \notin search_path /\ names[2] \in search_path /\ names[Len(names)] = names[1]
    /\ tools.available.kind = "value" /\ tools.available.value = <<names[2]>>
    /\ tools.missing.kind = "value" /\ Len(tools.missing.value) = MaxNames - 1
    /\ tools.required.kind = "value" /\ tools.required.value[1] = FALSE
    /\ tools.info.kind = "value" /\ tools.info.name = names[1] /\ ~tools.info.available
====
